---- MODULE Spec2Model ----
(***************************************************************************)
(* Model of weather.py: the threshold parser, the certainty evaluator, the *)
(* trade gate inside scan_once, the poll scheduler and the polling loop of *)
(* run_continuous.                                                         *)
(*                                                                         *)
(* Conventions.                                                            *)
(*  - Python None is the empty tuple <<>>, a present value v is <<v>>.     *)
(*  - Temperatures are integers in hundredths of a degree Fahrenheit: the  *)
(*    observation is rounded to one decimal (a multiple of 10 here) and    *)
(*    SAFETY_MARGIN = 0.01 is one hundredth.                               *)
(*  - Prices are integer cents, max_trade_amount is integer dollars.       *)
(*  - A title is a sequence of one-character strings; the degree sign is   *)
(*    the token Deg.                                                       *)
(*  - The clock is the minute of the day (0..1439) in the fixed UTC-5 zone *)
(*    that get_next_poll_interval reads.                                   *)
(***************************************************************************)
EXTENDS Integers, Sequences, FiniteSets, TLC

\* ------------------------------------------------------------------------
\* Program constants (weather.py:34-39, 50-64)
\* ------------------------------------------------------------------------
POLL_INTERVAL_SECONDS == 300

BURST_POLL_SECONDS == 60

MAX_TRADE_AMOUNT == 5

MAX_TOTAL_TRADES == 5

\* SAFETY_MARGIN = 0.01 degree, in hundredths of a degree
SAFETY_MARGIN == 1

\* The keys of the CITIES dict in insertion (= iteration) order
CITIES == <<"Boston", "New York">>

\* ------------------------------------------------------------------------
\* Bounds of the model
\* ------------------------------------------------------------------------
\* longest listing returned by one get_kalshi_markets call
MaxListings == 2

\* largest max_total_trades a session is configured with
MaxCap == 2

\* scans a session may start (caps scan_count)
MaxScans == 2

\* ------------------------------------------------------------------------
\* Python values
\* ------------------------------------------------------------------------
None == <<>>

Some(v) == <<v>>

\* Python truthiness of an optional integer: None and 0 are falsy
Truthy(x) == x # None /\ x[1] # 0

RECURSIVE Pow2(_)
Pow2(n) == IF n <= 0 THEN 1 ELSE 2 * Pow2(n - 1)

\* ------------------------------------------------------------------------
\* Threshold parser: extract_temp_from_title
\* ------------------------------------------------------------------------
Deg == "deg"

Digits == <<"0", "1", "2", "3", "4", "5", "6", "7", "8", "9">>

IsDigit(c) == \E d \in 1..10 : Digits[d] = c

DigitVal(c) == (CHOOSE d \in 1..10 : Digits[d] = c) - 1

\* last index of the run of digits that starts at index i (greedy \d+)
RECURSIVE DigitsEnd(_, _)
DigitsEnd(t, i) ==
    IF i + 1 <= Len(t) /\ IsDigit(t[i + 1]) THEN DigitsEnd(t, i + 1) ELSE i

\* int() of the digits t[a..b]
RECURSIVE ToInt(_, _, _)
ToInt(t, a, b) ==
    IF b < a THEN 0 ELSE 10 * ToInt(t, a, b - 1) + DigitVal(t[b])

\* r'(\d+)-(\d+)deg' matches starting at index i
RangeMatchAt(t, i) ==
    /\ IsDigit(t[i])
    /\ LET a == DigitsEnd(t, i)
       IN  /\ a + 2 <= Len(t)
           /\ t[a + 1] = "-"
           /\ IsDigit(t[a + 2])
           /\ LET b == DigitsEnd(t, a + 2)
              IN  b + 1 <= Len(t) /\ t[b + 1] = Deg

\* mutant: the sign patterns without their closing degree sign
SignMatchAtNoDegree(t, i, sign) ==
    /\ t[i] = sign
    /\ i + 1 <= Len(t)
    /\ IsDigit(t[i + 1])

\* r'<sign>(\d+)deg' matches starting at index i
SignMatchAt(t, i, sign) ==
    /\ t[i] = sign
    /\ i + 1 <= Len(t)
    /\ IsDigit(t[i + 1])
    /\ LET a == DigitsEnd(t, i + 1)
       IN  a + 1 <= Len(t) /\ t[a + 1] = Deg

\* re.search: the leftmost index where the pattern matches
Leftmost(S) == CHOOSE i \in S : \A j \in S : i <= j

\* mutant: the form that comes first in the title wins
extract_temp_from_title_by_position(title) ==
    LET rs == {i \in 1..Len(title) : RangeMatchAt(title, i)}
        gs == {i \in 1..Len(title) : SignMatchAt(title, i, ">")}
        ls == {i \in 1..Len(title) : SignMatchAt(title, i, "<")}
        all == rs \cup gs \cup ls
    IN  IF all = {} THEN None
        ELSE LET i == Leftmost(all)
             IN  IF i \in rs
                 THEN LET a == DigitsEnd(title, i)
                          b == DigitsEnd(title, a + 2)
                      IN  Some(<<ToInt(title, i, a), ToInt(title, a + 2, b)>>)
                 ELSE IF i \in gs
                 THEN Some(<<ToInt(title, i + 1, DigitsEnd(title, i + 1)),
                             999>>)
                 ELSE Some(<<0, ToInt(title, i + 1, DigitsEnd(title, i + 1))>>)

\* the three patterns of weather.py:381-396, tried in this order
extract_temp_from_title(title) ==
    LET rs == {i \in 1..Len(title) : RangeMatchAt(title, i)}
        gs == {i \in 1..Len(title) : SignMatchAt(title, i, ">")}
        ls == {i \in 1..Len(title) : SignMatchAt(title, i, "<")}
    IN  IF rs # {}
        THEN LET i == Leftmost(rs)
                 a == DigitsEnd(title, i)
                 b == DigitsEnd(title, a + 2)
             IN  Some(<<ToInt(title, i, a), ToInt(title, a + 2, b)>>)
        ELSE IF gs # {}
        THEN LET i == Leftmost(gs)
             IN  Some(<<ToInt(title, i + 1, DigitsEnd(title, i + 1)), 999>>)
        ELSE IF ls # {}
        THEN LET i == Leftmost(ls)
             IN  Some(<<0, ToInt(title, i + 1, DigitsEnd(title, i + 1))>>)
        ELSE None

\* the titles the listings of a session carry
TitleRange == <<"e", " ", "5", "8", "-", "5", "9", Deg, " ", "1", "2">>

TitleGreater == <<"e", " ", ">", "6", "1", Deg, " ", "1", "2">>

TitleOther == <<"e", " ", "6", "0", " ", "1", "2">>

\* extract_temp_from_title of the session titles, evaluated once
ParsedTitles ==
    [t \in {TitleRange, TitleGreater, TitleOther} |->
        extract_temp_from_title(t)]

\* temp_range = extract_temp_from_title(title)
TempRange(title) ==
    IF title \in DOMAIN ParsedTitles THEN ParsedTitles[title]
    ELSE extract_temp_from_title(title)

\* ------------------------------------------------------------------------
\* Poll scheduler: is_critical_window, get_next_poll_interval
\* ------------------------------------------------------------------------
Hour(c) == c \div 60

Minute(c) == c % 60

\* datetime.now().minute: the minute of the hour is the same in the system
\* zone and in UTC-5 for every zone a whole number of hours from UTC
is_critical_window(now) == Minute(now) >= 50 \/ Minute(now) = 0

\* mutant: no cutoff at all
get_next_poll_interval_no_cutoff(now_et) ==
    IF Minute(now_et) >= 53 \/ Minute(now_et) <= 3
    THEN Some(BURST_POLL_SECONDS)
    ELSE Some(POLL_INTERVAL_SECONDS)

\* mutant: the cutoff test without its "hour > 22" clause
get_next_poll_interval_22_only(now_et) ==
    IF Hour(now_et) = 22 /\ Minute(now_et) >= 30
    THEN None
    ELSE IF Minute(now_et) >= 53 \/ Minute(now_et) <= 3
    THEN Some(BURST_POLL_SECONDS)
    ELSE Some(POLL_INTERVAL_SECONDS)

get_next_poll_interval(now_et) ==
    IF Hour(now_et) > 22 \/ (Hour(now_et) = 22 /\ Minute(now_et) >= 30)
    THEN None
    ELSE IF Minute(now_et) >= 53 \/ Minute(now_et) <= 3
    THEN Some(BURST_POLL_SECONDS)
    ELSE Some(POLL_INTERVAL_SECONDS)

\* ------------------------------------------------------------------------
\* Certainty evaluator: find_arbitrage_opportunities
\* ------------------------------------------------------------------------
\* mutant: int() in place of round()
PyRoundTruncating(n, d) == n \div d

\* Python round() of the quotient n/d (d > 0): nearest integer, ties to even.
\* The float expression (profit/no_price)*100 is off from the exact quotient
\* by about 1e-13, far less than the distance 1/(2*no_price) of a
\* non-tie quotient from a rounding boundary; the only tie (no_price = 32,
\* 212.5) is exact in binary.
PyRound(n, d) ==
    LET q == n \div d
        r == n % d
    IN  IF 2 * r > d \/ (2 * r = d /\ q % 2 = 1) THEN q + 1 ELSE q

\* mutant: a price of 100 taken for a market without price fields
MarketYesPriceDefault100(market) ==
    IF market.last_price # None THEN market.last_price[1]
    ELSE IF market.yes_price # None THEN market.yes_price[1]
    ELSE 100

\* market.get('last_price', market.get('yes_price', 0))
MarketYesPrice(market) ==
    IF market.last_price # None THEN market.last_price[1]
    ELSE IF market.yes_price # None THEN market.yes_price[1]
    ELSE 0

\* mutant: the comparison without the safety margin
CertainNoMargin(current_high, high_temp) == current_high >= high_temp * 100

\* current_high >= (high_temp + SAFETY_MARGIN), in hundredths of a degree
Certain(current_high, high_temp) ==
    current_high >= high_temp * 100 + SAFETY_MARGIN

\* no_price < 95
Profitable(no_price) == no_price < 95

\* the body of the loop over markets for one market: the opportunities
\* (none or one) it appends
EvaluateMarket(city_name, current_high, market) ==
    LET temp_range == TempRange(market.title)
    IN  IF temp_range = None THEN <<>>
        ELSE LET high_temp == temp_range[1][2]
                 yes_price == MarketYesPrice(market)
                 no_price  == 100 - yes_price
                 profit    == 100 - no_price
             IN  IF Certain(current_high, high_temp) /\ Profitable(no_price)
                 THEN << [city             |-> city_name,
                          ticker           |-> market.ticker,
                          title            |-> market.title,
                          temp_range       |-> temp_range[1],
                          current_high     |-> current_high,
                          yes_price        |-> yes_price,
                          no_price         |-> no_price,
                          profit_per_share |-> profit,
                          roi              |-> IF no_price > 0
                                               THEN PyRound(profit * 100, no_price)
                                               ELSE 0] >>
                 ELSE <<>>

RECURSIVE EvaluateMarkets(_, _, _)
EvaluateMarkets(city_name, current_high, markets) ==
    IF markets = <<>> THEN <<>>
    ELSE EvaluateMarket(city_name, current_high, Head(markets))
         \o EvaluateMarkets(city_name, current_high, Tail(markets))

\* mutant: the opportunities returned last listing first
find_arbitrage_opportunities_reversed(city_name, weather_data, markets) ==
    IF weather_data = None \/ markets = <<>> THEN <<>>
    ELSE LET r == EvaluateMarkets(city_name, weather_data[1].max_temp_today,
                                  markets)
         IN  [i \in 1..Len(r) |-> r[Len(r) + 1 - i]]

find_arbitrage_opportunities(city_name, weather_data, markets) ==
    IF weather_data = None \/ markets = <<>> THEN <<>>
    ELSE EvaluateMarkets(city_name, weather_data[1].max_temp_today, markets)

\* ------------------------------------------------------------------------
\* Trade gate arithmetic: quantity = int(max_trade_amount / (no_price / 100))
\* ------------------------------------------------------------------------
\* floor(log2(k)) for k >= 1
RECURSIVE Log2Floor(_)
Log2Floor(k) == IF k < 2 THEN 0 ELSE 1 + Log2Floor(k \div 2)

\* 2^e mod 100
RECURSIVE Pow2Mod100(_)
Pow2Mod100(e) == IF e = 0 THEN 1 ELSE (2 * Pow2Mod100(e - 1)) % 100

\* the least n with p * 2^n >= 100, for 1 <= p <= 100: the binary exponent
\* of the double p/100 is -n
RECURSIVE CentExponent(_)
CentExponent(p) == IF p >= 100 THEN 0 ELSE 1 + CentExponent(2 * p)

\* price_dollars = no_price / 100 as an IEEE-754 double: the 53-bit
\* significand is p * 2^(52+n) / 100 rounded to nearest; CentRemainder is the
\* part of the numerator that the rounding drops (0 = exact, > 50 = the
\* double is above p/100, < 50 = below; 50 cannot occur).
CentRemainder(p) == (p * Pow2Mod100(52 + CentExponent(p))) % 100

\* int(max_trade_amount / price_dollars) for integers m >= 0, 1 <= p <= 100,
\* as double arithmetic computes it.  When p does not divide 100*m the
\* quotient is at least 1/p away from an integer and truncation gives the
\* exact floor.  When it does, the exact quotient k is an integer and the
\* double quotient is k or the double just below k: price_dollars rounded up
\* by s/100 units in the last place makes the quotient fall short of k by
\* k*s/(p*2^(52+n)), which rounds back to k unless it exceeds half the gap
\* between k and its predecessor.
Quantity(m, p) ==
    LET exact == (100 * m) \div p
        k     == exact
        s     == 100 - CentRemainder(p)
        gap   == Log2Floor(k) + CentExponent(p) - 1
                 - (IF k = Pow2(Log2Floor(k)) THEN 1 ELSE 0)
    IN  IF (100 * m) % p # 0 \/ k = 0 THEN exact
        ELSE IF CentRemainder(p) > 50
                /\ k * s * Pow2(0 - gap) > p * Pow2(gap)
        THEN exact - 1
        ELSE exact

\* ------------------------------------------------------------------------
\* Inputs of a session
\* ------------------------------------------------------------------------
Tickers == {"X", "Y", "Z"}

Market(ticker, title, last_price) ==
    [ticker |-> ticker, title |-> title,
     last_price |-> Some(last_price), yes_price |-> None]

\* the records get_kalshi_markets may return in a session of the model
MarketPool ==
    { Market("X", TitleRange, 10), Market("Y", TitleRange, 93),
      Market("Z", TitleRange, 100), Market("X", TitleOther, 10) }

RECURSIVE SeqsUpTo(_, _)
SeqsUpTo(S, n) ==
    IF n = 0 THEN {<<>>}
    ELSE LET shorter == SeqsUpTo(S, n - 1)
         IN  shorter \cup {Append(q, x) : q \in shorter, x \in S}

\* the results of get_kalshi_markets: [] on any failure, else a listing
MarketLists == SeqsUpTo(MarketPool, MaxListings)

\* the results of get_current_high_temp: None on any failure, else a reading
WeatherOutcomes ==
    {None} \cup {Some([max_temp_today |-> h]) : h \in {5900, 6000}}

\* the results of execute_trade: None on any failure, else the order JSON
\* (a non-empty object, which "if result:" takes as success)
TradeOutcomes == {None, Some("order")}

TradeAmounts == {MAX_TRADE_AMOUNT, 7}

\* minutes of the day a session of the model starts at: 21:58, 22:28, 22:31
StartClocks == {1318, 1348, 1351}

\* ------------------------------------------------------------------------
\* State
\* ------------------------------------------------------------------------
VARIABLES
    pc,                  \* position of the running code
    auto_execute,        \* arguments of run_continuous / scan_once
    max_trade_amount,
    max_total_trades,
    traded_today,        \* set of tickers already bought
    scan_count,
    total_opportunities,
    total_trades,
    scan_results,        \* the dict scan_once builds
    city_idx,            \* position of the loop over CITIES
    opportunities,       \* the list the current city produced
    opp_idx,             \* position of the loop over opportunities
    clock,               \* minute of the day
    next_interval,
    in_critical_window,
    stop_reason,         \* which branch left the polling loop
    final_stats,         \* times the final statistics were printed
    orders,              \* history: successful submissions per ticker
    spent,               \* history: cents committed by successful orders
    rejected,            \* history: tickers whose latest submission failed
    gate,                \* history: what the last step did with a candidate
    probe                \* a function called on its own: arguments, result

vars == <<pc, auto_execute, max_trade_amount, max_total_trades, traded_today,
          scan_count, total_opportunities, total_trades, scan_results,
          city_idx, opportunities, opp_idx, clock, next_interval,
          in_critical_window, stop_reason, final_stats, orders, spent, rejected,
          gate,
          probe>>

config == <<auto_execute, max_trade_amount, max_total_trades, probe>>

session == <<scan_count, total_opportunities, total_trades>>

schedule == <<clock, next_interval, in_critical_window>>

history == <<orders, spent, rejected>>

NewScanResults ==
    [opportunities_found |-> 0, trades_executed |-> 0, cities_scanned |-> 0,
     cities_with_data |-> <<>>, max_trades_hit |-> FALSE]

NoDecision == [decision |-> "none", ticker |-> "", no_price |-> 0,
               quantity |-> 0, result |-> None, retry |-> FALSE,
               listed |-> 0, unparsed |-> 0, tickers |-> <<>>]

\* what a pass of the city loop did: "Fetch-WeatherFailed",
\* "Fetch-NoMarkets" or "Fetch-Evaluated", with the number of listings
\* fetched and of those whose title gave no range; when the opportunities
\* found go to the trade gate, also the tickers of the listings in the
\* order they were returned
Fetched(outcome, markets) ==
    [NoDecision EXCEPT
        !.decision = outcome,
        !.listed = Len(markets),
        !.unparsed = Cardinality({i \in 1..Len(markets) :
                                    TempRange(markets[i].title) = None})]

Decision(d, opp, q, res) ==
    [NoDecision EXCEPT !.decision = d, !.ticker = opp.ticker,
                       !.no_price = opp.no_price, !.quantity = q,
                       !.result = res]

\* mutant: the cap compared with > instead of >=
BudgetExhaustedOffByOne ==
    Truthy(max_total_trades)
    /\ Cardinality(traded_today) > max_total_trades[1]

\* max_total_trades and len(traded_today) >= max_total_trades
BudgetExhausted ==
    Truthy(max_total_trades)
    /\ Cardinality(traded_today) >= max_total_trades[1]

NoProbe == [fn |-> "none"]

\* mutant: the duplicate check never fires
AlreadyTradedNever(ticker) == FALSE

\* ticker in traded_today
AlreadyTraded(ticker) == ticker \in traded_today

\* mutant: the ticker is marked traded before the result is known
AfterTradeOptimistic(ticker, result) == traded_today \cup {ticker}

\* if result: traded_today.add(ticker)
AfterTrade(ticker, result) ==
    IF result # None THEN traded_today \cup {ticker} ELSE traded_today

\* the locals of run_continuous / scan_once before the first scan
InitLocals ==
    /\ traded_today = {}
    /\ scan_count = 0
    /\ total_opportunities = 0
    /\ total_trades = 0
    /\ scan_results = NewScanResults
    /\ city_idx = 0
    /\ opportunities = <<>>
    /\ opp_idx = 0
    /\ next_interval = None
    /\ in_critical_window = FALSE
    /\ stop_reason = "running"
    /\ final_stats = 0
    /\ orders = [t \in Tickers |-> 0]
    /\ spent = 0
    /\ rejected = {}
    /\ gate = NoDecision

\* run_continuous up to the polling loop (weather.py:604-663)
Init ==
    /\ InitLocals
    /\ auto_execute \in BOOLEAN
    /\ max_trade_amount \in TradeAmounts
    /\ probe = NoProbe
    /\ pc = "loop_top"
    /\ max_total_trades \in {Some(n) : n \in 0..MaxCap}
    /\ clock \in StartClocks

\* ------------------------------------------------------------------------
\* run_continuous: the polling loop
\* ------------------------------------------------------------------------
\* weather.py:665-685: the cap check at the top of the loop, then the call of
\* scan_once (which builds a fresh scan_results)
LoopTop ==
    /\ pc = "loop_top"
    /\ IF Cardinality(traded_today) >= max_total_trades[1]
       THEN /\ pc' = "final"
            /\ stop_reason' = "max_trades"
            /\ UNCHANGED <<scan_count, scan_results, city_idx>>
       ELSE /\ scan_count < MaxScans
            /\ scan_count' = scan_count + 1
            /\ scan_results' = NewScanResults
            /\ city_idx' = 1
            /\ pc' = "city"
            /\ UNCHANGED stop_reason
    /\ gate' = NoDecision
    /\ UNCHANGED <<config, traded_today, total_opportunities, total_trades,
                   opportunities, opp_idx, schedule, final_stats, history>>

\* ------------------------------------------------------------------------
\* scan_once
\* ------------------------------------------------------------------------
\* mutant: opportunities are traded whether or not auto_execute is set
EntersGateAlways(opps) == opps # <<>>

\* if auto_execute and opportunities: (weather.py:568)
EntersGate(opps) == auto_execute /\ opps # <<>>

\* mutant: a city without data ends the scan
NextCityBreak ==
    /\ pc' = "scan_return"
    /\ UNCHANGED <<city_idx, opportunities, opp_idx>>

\* continue (weather.py:547, 562), or the end of the body of the city loop:
\* on to the next city
NextCity ==
    /\ city_idx' = city_idx + 1
    /\ UNCHANGED <<pc, opportunities, opp_idx>>

\* weather.py:533-568: one iteration of the loop over CITIES, up to the loop
\* over the opportunities of the city; past the last city, the return
ScanCity ==
    /\ pc = "city"
    /\ IF city_idx > Len(CITIES)
       THEN /\ pc' = "scan_return"
            /\ gate' = NoDecision
            /\ UNCHANGED <<scan_results, city_idx, opportunities, opp_idx>>
       ELSE IF BudgetExhausted
       THEN /\ scan_results' = [scan_results EXCEPT !.max_trades_hit = TRUE]
            /\ pc' = "scan_return"
            /\ gate' = NoDecision
            /\ UNCHANGED <<city_idx, opportunities, opp_idx>>
       ELSE \E weather_data \in WeatherOutcomes :
            IF weather_data = None
            THEN /\ NextCity
                 /\ gate' = Fetched("Fetch-WeatherFailed", <<>>)
                 /\ UNCHANGED scan_results
            ELSE \E markets \in MarketLists :
                 LET city_name == CITIES[city_idx]
                     opps == find_arbitrage_opportunities(
                                 city_name, weather_data, markets)
                     seen == [scan_results EXCEPT
                                !.cities_scanned = @ + 1,
                                !.cities_with_data = Append(@, city_name)]
                 IN  IF markets = <<>>
                     THEN /\ scan_results' = seen
                          /\ NextCity
                          /\ gate' = Fetched("Fetch-NoMarkets", markets)
                     ELSE /\ scan_results' =
                               [seen EXCEPT
                                  !.opportunities_found = @ + Len(opps)]
                          /\ gate' =
                               [Fetched("Fetch-Evaluated", markets) EXCEPT
                                  !.tickers =
                                     IF EntersGate(opps)
                                     THEN [i \in 1..Len(markets) |->
                                             markets[i].ticker]
                                     ELSE <<>>]
                          /\ IF EntersGate(opps)
                             THEN /\ opportunities' = opps
                                  /\ opp_idx' = 1
                                  /\ pc' = "opp"
                                  /\ UNCHANGED city_idx
                             ELSE NextCity
    /\ UNCHANGED <<config, traded_today, session, schedule, stop_reason,
                   final_stats, history>>

\* mutant: a failed order raises out of the scan
AfterOrderRaising(result) ==
    IF result = None
    THEN /\ pc' = "raised"
         /\ UNCHANGED <<opp_idx, city_idx>>
    ELSE /\ opp_idx' = opp_idx + 1
         /\ UNCHANGED <<pc, city_idx>>

\* weather.py:594-599: after execute_trade has returned, success or not, the
\* loop goes on with the next opportunity
AfterOrder(result) ==
    /\ opp_idx' = opp_idx + 1
    /\ UNCHANGED <<pc, city_idx>>

\* weather.py:569-599: one iteration of the loop over opportunities (the
\* trade gate and execute_trade); past the last one, on to the next city
ScanOpp ==
    /\ pc = "opp"
    /\ IF opp_idx > Len(opportunities)
       THEN /\ city_idx' = city_idx + 1
            /\ pc' = "city"
            /\ gate' = NoDecision
            /\ UNCHANGED <<traded_today, scan_results, opp_idx, history>>
       ELSE LET opp == opportunities[opp_idx]
                ticker == opp.ticker
                no_price == opp.no_price
            IN  IF BudgetExhausted
                THEN /\ scan_results' =
                          [scan_results EXCEPT !.max_trades_hit = TRUE]
                     /\ city_idx' = city_idx + 1
                     /\ pc' = "city"
                     /\ gate' = Decision("Skip-BudgetExhausted", opp, 0, None)
                     /\ UNCHANGED <<traded_today, opp_idx, history>>
                ELSE IF AlreadyTraded(ticker)
                THEN /\ opp_idx' = opp_idx + 1
                     /\ gate' = Decision("Skip-Duplicate", opp, 0, None)
                     /\ UNCHANGED <<pc, traded_today, scan_results, city_idx,
                                    history>>
                ELSE IF no_price = 0
                THEN \* max_trade_amount / price_dollars: ZeroDivisionError
                     /\ pc' = "raised"
                     /\ gate' = Decision("ZeroDivisionError", opp, 0, None)
                     /\ UNCHANGED <<traded_today, scan_results, city_idx,
                                    opp_idx, history>>
                ELSE \E result \in TradeOutcomes :
                     LET quantity == Quantity(max_trade_amount, no_price)
                     IN  /\ gate' = [Decision("Execute", opp, quantity, result)
                                    EXCEPT !.retry = ticker \in rejected]
                         /\ AfterOrder(result)
                         /\ traded_today' = AfterTrade(ticker, result)
                         /\ IF result # None
                            THEN /\ scan_results' =
                                      [scan_results EXCEPT
                                         !.trades_executed = @ + 1]
                                 /\ orders' =
                                      [orders EXCEPT ![ticker] = @ + 1]
                                 /\ spent' = spent + quantity * no_price
                                 /\ rejected' = rejected \ {ticker}
                            ELSE /\ rejected' = rejected \cup {ticker}
                                 /\ UNCHANGED <<scan_results, orders, spent>>
    /\ UNCHANGED <<config, session, opportunities, schedule, stop_reason,
                   final_stats>>

\* ------------------------------------------------------------------------
\* run_continuous, after the scan
\* ------------------------------------------------------------------------
\* weather.py:687-738: fold the scan into the session totals, stop on
\* max_trades_hit, else ask the scheduler
AfterScan ==
    /\ pc = "scan_return"
    /\ total_opportunities' =
           total_opportunities + scan_results.opportunities_found
    /\ total_trades' = total_trades + scan_results.trades_executed
    /\ IF scan_results.max_trades_hit
       THEN /\ pc' = "final"
            /\ stop_reason' = "max_trades"
            /\ UNCHANGED <<next_interval, in_critical_window>>
       ELSE /\ next_interval' = get_next_poll_interval(clock)
            /\ IF get_next_poll_interval(clock) = None
               THEN /\ pc' = "final"
                    /\ stop_reason' = "closed"
                    /\ UNCHANGED in_critical_window
               ELSE /\ in_critical_window' = is_critical_window(clock)
                    /\ pc' = "sleep"
                    /\ UNCHANGED stop_reason
    /\ gate' = NoDecision
    /\ UNCHANGED <<config, traded_today, scan_count, scan_results, city_idx,
                   opportunities, opp_idx, clock, final_stats, history>>

\* weather.py:739: time.sleep(next_interval) runs to its end
Sleep ==
    /\ pc = "sleep"
    /\ clock' = clock + next_interval[1] \div 60
    /\ pc' = "loop_top"
    /\ gate' = NoDecision
    /\ UNCHANGED <<config, traded_today, session, scan_results, city_idx,
                   opportunities, opp_idx, next_interval, in_critical_window,
                   stop_reason, final_stats, history>>

\* weather.py:741-744: KeyboardInterrupt raised anywhere inside the try block
Interrupt ==
    /\ pc \in {"loop_top", "city", "opp", "scan_return", "sleep", "raised"}
    /\ pc' = "final"
    /\ stop_reason' = "interrupt"
    /\ gate' = NoDecision
    /\ UNCHANGED <<config, traded_today, session, scan_results, city_idx,
                   opportunities, opp_idx, schedule, final_stats, history>>

\* mutant: an exception raised inside the try block leaves run_continuous
HandleErrorUncaught ==
    /\ pc = "raised"
    /\ pc' = "stopped"
    /\ stop_reason' = "error"
    /\ gate' = NoDecision
    /\ UNCHANGED <<config, traded_today, session, scan_results, city_idx,
                   opportunities, opp_idx, schedule, final_stats, history>>

\* weather.py:745-749: an exception raised inside the try block
HandleError ==
    /\ pc = "raised"
    /\ pc' = "final"
    /\ stop_reason' = "error"
    /\ gate' = NoDecision
    /\ UNCHANGED <<config, traded_today, session, scan_results, city_idx,
                   opportunities, opp_idx, schedule, final_stats, history>>

\* weather.py:751-764: the final statistics
FinalStats ==
    /\ pc = "final"
    /\ final_stats' = final_stats + 1
    /\ pc' = "stopped"
    /\ gate' = NoDecision
    /\ UNCHANGED <<config, traded_today, session, scan_results, city_idx,
                   opportunities, opp_idx, schedule, stop_reason, history>>

Next ==
    \/ LoopTop
    \/ ScanCity
    \/ ScanOpp
    \/ AfterScan
    \/ Sleep
    \/ Interrupt
    \/ HandleError
    \/ FinalStats

Spec == Init /\ [][Next]_vars

\* ------------------------------------------------------------------------
\* run_continuous with every step of the program eventually taken
\* ------------------------------------------------------------------------
\* sessions that start close enough to the cutoff to meet it within the
\* scans of the model: 22:28 and 22:31
LiveClocks == {1348, 1351}

InitLive ==
    /\ InitLocals
    /\ auto_execute \in BOOLEAN
    /\ max_trade_amount = MAX_TRADE_AMOUNT
    /\ probe = NoProbe
    /\ pc = "loop_top"
    /\ max_total_trades \in {Some(1), Some(MAX_TOTAL_TRADES)}
    /\ clock \in LiveClocks

\* the steps the program takes by itself: every scan, wait, handler and the
\* final block run to their end; the interrupt is the user's
ProgramStep ==
    \/ LoopTop
    \/ ScanCity
    \/ ScanOpp
    \/ AfterScan
    \/ Sleep
    \/ HandleError
    \/ FinalStats

SpecLive == InitLive /\ [][Next]_vars /\ WF_vars(ProgramStep)

\* ------------------------------------------------------------------------
\* scan_once called on its own, the caller carrying traded_today from one
\* call to the next
\* ------------------------------------------------------------------------
\* max_trade_amount as a caller of scan_once may pass it: also an amount
\* that buys no contract at any price
ScanAmounts == TradeAmounts \cup {0}

InitScan ==
    /\ InitLocals
    /\ auto_execute \in BOOLEAN
    /\ max_trade_amount \in ScanAmounts
    /\ probe = NoProbe
    /\ pc = "caller"
    /\ max_total_trades \in {None} \cup {Some(n) : n \in 0..MaxCap}
    /\ clock = 0

\* scan_once(auto_execute, max_trade_amount, traded_today, max_total_trades)
\* (weather.py:507-531)
CallScan ==
    /\ pc = "caller"
    /\ scan_count < MaxScans
    /\ scan_count' = scan_count + 1
    /\ scan_results' = NewScanResults
    /\ city_idx' = 1
    /\ pc' = "city"
    /\ gate' = NoDecision
    /\ UNCHANGED <<config, traded_today, total_opportunities, total_trades,
                   opportunities, opp_idx, schedule, stop_reason,
                   final_stats, history>>

\* return scan_results, traded_today (weather.py:601)
ReturnScan ==
    /\ pc = "scan_return"
    /\ pc' = "caller"
    /\ gate' = NoDecision
    /\ UNCHANGED <<config, traded_today, session, scan_results, city_idx,
                   opportunities, opp_idx, schedule, stop_reason,
                   final_stats, history>>

NextScan ==
    \/ CallScan
    \/ ScanCity
    \/ ScanOpp
    \/ ReturnScan

SpecScan == InitScan /\ [][NextScan]_vars

\* ------------------------------------------------------------------------
\* The scheduler queries called at successive clock times of one day
\* ------------------------------------------------------------------------
\* minutes the clock may advance between two queries
MaxAdvance == 3

LastMinute == 23 * 60 + 59

InitSched ==
    /\ InitLocals
    /\ auto_execute = TRUE
    /\ max_trade_amount = MAX_TRADE_AMOUNT
    /\ max_total_trades = Some(MAX_TOTAL_TRADES)
    /\ probe = NoProbe
    /\ pc = "sched_idle"
    /\ clock \in 0..LastMinute

\* next_interval = get_next_poll_interval(); in_critical_window =
\* is_critical_window() (weather.py:722, 730), read at the same minute
Poll ==
    /\ pc \in {"sched_idle", "sched_polled"}
    /\ \E d \in 0..MaxAdvance :
         /\ clock + d <= LastMinute
         /\ clock' = clock + d
         /\ next_interval' = get_next_poll_interval(clock + d)
         /\ in_critical_window' = is_critical_window(clock + d)
    /\ pc' = "sched_polled"
    /\ UNCHANGED <<config, traded_today, session, scan_results, city_idx,
                   opportunities, opp_idx, stop_reason, final_stats, history,
                   gate>>

NextSched == Poll

SpecSched == InitSched /\ [][NextSched]_vars

\* ------------------------------------------------------------------------
\* find_arbitrage_opportunities called on one listing
\* ------------------------------------------------------------------------
RECURSIVE IntToDigits(_)
IntToDigits(n) ==
    IF n < 10 THEN <<Digits[n + 1]>>
    ELSE IntToDigits(n \div 10) \o <<Digits[(n % 10) + 1]>>

\* a market title of the given form for the bounds a, b
RenderTitle(form, a, b) ==
    LET prefix == <<"b", "e", " ">>
        suffix == <<" ", "o", "n", " ", "1", "2">>
    IN  IF form = "range"
        THEN prefix \o IntToDigits(a) \o <<"-">> \o IntToDigits(b)
             \o <<Deg>> \o suffix
        ELSE IF form = "gt"
        THEN prefix \o <<">">> \o IntToDigits(a) \o <<Deg>> \o suffix
        ELSE IF form = "lt"
        THEN prefix \o <<"<">> \o IntToDigits(a) \o <<Deg>> \o suffix
        ELSE prefix \o IntToDigits(a) \o <<"-">> \o IntToDigits(b) \o suffix

ProbeForms == {"range", "gt", "lt"}

ProbeBounds == {<<58, 59>>, <<59, 60>>}

ProbeHighs == {5800, 5900, 5910, 6000}

YesPrices == 0..100

PriceFields == {"last_price", "yes_price"}

EvalProbes ==
    [fn : {"find_arbitrage_opportunities"}, form : ProbeForms,
     bounds : ProbeBounds, high : ProbeHighs, yes : YesPrices,
     field : PriceFields]

ProbeMarket(pr) ==
    [ticker |-> "X",
     title |-> RenderTitle(pr.form, pr.bounds[1], pr.bounds[2]),
     last_price |-> IF pr.field = "last_price" THEN Some(pr.yes) ELSE None,
     yes_price |-> IF pr.field = "yes_price" THEN Some(pr.yes) ELSE None]

InitEval ==
    /\ InitLocals
    /\ auto_execute = FALSE
    /\ max_trade_amount = MAX_TRADE_AMOUNT
    /\ max_total_trades = Some(MAX_TOTAL_TRADES)
    /\ probe \in EvalProbes
    /\ pc = "eval_call"
    /\ clock = 0

\* opportunities = find_arbitrage_opportunities(city_name, weather_data,
\* markets) (weather.py:564)
Evaluate ==
    /\ pc = "eval_call"
    /\ opportunities' =
         find_arbitrage_opportunities(
             CITIES[1], Some([max_temp_today |-> probe.high]),
             <<ProbeMarket(probe)>>)
    /\ pc' = "evaluated"
    /\ UNCHANGED <<config, traded_today, session, scan_results, city_idx,
                   opp_idx, schedule, stop_reason, final_stats, history,
                   gate>>

NextEval == Evaluate

SpecEval == InitEval /\ [][NextEval]_vars

\* ------------------------------------------------------------------------
\* find_arbitrage_opportunities called on one listing with missing data: a
\* title of no form ("none"), or neither price field ("absent")
\* ------------------------------------------------------------------------
SkipProbes ==
    {pr \in [fn : {"find_arbitrage_opportunities"},
             form : ProbeForms \cup {"none"}, bounds : ProbeBounds,
             high : ProbeHighs, yes : YesPrices,
             field : PriceFields \cup {"absent"}] :
        pr.form = "none" \/ pr.field = "absent"}

InitSkip ==
    /\ InitLocals
    /\ auto_execute = FALSE
    /\ max_trade_amount = MAX_TRADE_AMOUNT
    /\ max_total_trades = Some(MAX_TOTAL_TRADES)
    /\ probe \in SkipProbes
    /\ pc = "eval_call"
    /\ clock = 0

SpecSkip == InitSkip /\ [][NextEval]_vars

\* ------------------------------------------------------------------------
\* extract_temp_from_title called on one title
\* ------------------------------------------------------------------------
\* longest title built freely from the characters of ParseAlphabet
MaxTitleLen == 5

ParseAlphabet == {"1", "2", "-", Deg, ">", "<", "x"}

\* titles holding two forms, in both orders
ComposedTitles ==
    LET forms == { <<"1", "2", "-", "2", "1", Deg>>, <<">", "2", Deg>>,
                   <<"<", "1", Deg>>, <<"2", "-", "2", Deg>> }
    IN  {<<"b", "e", " ">> \o f \o <<" ", "o", "r", " ">> \o g \o <<"?">> :
            f \in forms, g \in forms}

ParseTitles == SeqsUpTo(ParseAlphabet, MaxTitleLen) \cup ComposedTitles

InitParse ==
    /\ InitLocals
    /\ auto_execute = FALSE
    /\ max_trade_amount = MAX_TRADE_AMOUNT
    /\ max_total_trades = Some(MAX_TOTAL_TRADES)
    /\ probe \in [fn : {"extract_temp_from_title"}, title : ParseTitles,
                  called : {FALSE}, result : {None}]
    /\ pc = "parse_call"
    /\ clock = 0

\* temp_range = extract_temp_from_title(title) (weather.py:469)
Parse ==
    /\ pc = "parse_call"
    /\ probe' = [probe EXCEPT !.called = TRUE,
                              !.result = extract_temp_from_title(probe.title)]
    /\ pc' = "parsed"
    /\ UNCHANGED <<auto_execute, max_trade_amount, max_total_trades,
                   traded_today, session, scan_results, city_idx,
                   opportunities, opp_idx, schedule, stop_reason, final_stats,
                   history, gate>>

NextParse == Parse

SpecParse == InitParse /\ [][NextParse]_vars

\* ========================================================================
\* Properties
\* ========================================================================
\* the step about to be taken considers the opportunity at opp_idx
Considering == pc = "opp" /\ opp_idx <= Len(opportunities)

Candidate == opportunities[opp_idx]

Submitted(g) == g.decision = "Execute"

Succeeded(g) == g.decision = "Execute" /\ g.result # None

SuccessfulOrders == orders["X"] + orders["Y"] + orders["Z"]

\* C1: a ticker is in traded_today exactly when an order submission for it
\* has returned success: every step that adds a ticker is a successful
\* submission for that ticker, every successful submission leaves its ticker
\* in the set, and nothing else changes the set.
C1_TradedIffSucceeded ==
    [][ /\ traded_today' = {t \in Tickers : orders'[t] > 0}
        /\ (traded_today' # traded_today
              => /\ Succeeded(gate')
                 /\ traded_today' = traded_today \cup {gate'.ticker})
        /\ (Succeeded(gate') => gate'.ticker \in traded_today')
        /\ (Submitted(gate') /\ ~Succeeded(gate')
              => traded_today' = traded_today) ]_vars

C1_Witness ==
    /\ Succeeded(gate)
    /\ gate.ticker \in traded_today
    /\ Cardinality(traded_today) = 2

\* C2: no ticker ever has two successful order submissions, however often
\* it reappears in the listings of the same or of later scans.
C2_AtMostOneTradePerContract == \A t \in Tickers : orders[t] <= 1

C2_Witness ==
    /\ gate.decision = "Skip-Duplicate"
    /\ orders[gate.ticker] = 1
    /\ scan_count = 2
    /\ scan_results.trades_executed = 0

\* C3: in a run_continuous session neither the size of traded_today nor the
\* number of successful submissions ever exceeds max_total_trades.
C3_HardCap ==
    /\ Cardinality(traded_today) <= max_total_trades[1]
    /\ SuccessfulOrders <= max_total_trades[1]

C3_Witness ==
    /\ auto_execute
    /\ max_total_trades[1] = 1
    /\ Cardinality(traded_today) = 1
    /\ Considering

\* C4: once the size of traded_today equals max_total_trades (any integer
\* >= 0), every candidate considered is skipped as budget-exhausted and no
\* order is submitted for it.
C4_BudgetEnforced ==
    [][ (/\ Considering
         /\ max_total_trades # None
         /\ Cardinality(traded_today) = max_total_trades[1])
        => /\ gate'.decision = "Skip-BudgetExhausted"
           /\ ~Submitted(gate')
           /\ UNCHANGED <<traded_today, orders>> ]_vars

\* C5 as stated: considering an opportunity whose ticker is already in
\* traded_today always yields Skip-Duplicate.
C5_AlwaysSkipDuplicate ==
    [][ (Considering /\ Candidate.ticker \in traded_today)
        => gate'.decision = "Skip-Duplicate" ]_vars

\* C5 amended: considering an opportunity whose ticker is already in
\* traded_today never submits an order and changes no trade state; the
\* decision is Skip-BudgetExhausted when the budget check fires first
\* (max_total_trades is a non-zero number and traded_today has reached it)
\* and Skip-Duplicate otherwise.
C5_DuplicateNeverExecuted ==
    [][ (Considering /\ Candidate.ticker \in traded_today)
        => /\ ~Submitted(gate')
           /\ UNCHANGED <<traded_today, orders, spent>>
           /\ gate'.ticker = Candidate.ticker
           /\ gate'.decision =
                IF /\ max_total_trades # None
                   /\ max_total_trades # Some(0)
                   /\ Cardinality(traded_today) >= max_total_trades[1]
                THEN "Skip-BudgetExhausted"
                ELSE "Skip-Duplicate" ]_vars

C5_Witness ==
    /\ gate.decision = "Skip-Duplicate"
    /\ gate.ticker \in traded_today
    /\ max_total_trades # None
    /\ Cardinality(traded_today) < max_total_trades[1]

\* C6: every submitted order has quantity floor(max_trade_amount * 100 /
\* no_price), hence costs at most max_trade_amount dollars, and the
\* successful orders of a session cost at most max_trade_amount *
\* max_total_trades dollars in total.
C6_SpendLimit ==
    /\ Submitted(gate)
         => /\ gate.quantity = (max_trade_amount * 100) \div gate.no_price
            /\ gate.quantity * gate.no_price <= max_trade_amount * 100
    /\ spent <= max_trade_amount * 100 * max_total_trades[1]

\* what the title of an evaluation probe means: the high end of its range
ProbeHighEnd ==
    IF probe.form = "range" THEN probe.bounds[2]
    ELSE IF probe.form = "gt" THEN 999
    ELSE probe.bounds[1]

C8_ProfitAndRoi ==
    pc = "evaluated" /\ opportunities # <<>>
      => LET o == opportunities[1]
             d == o.roi * o.no_price - 100 * o.profit_per_share
         IN  /\ o.yes_price = probe.yes
             /\ o.no_price = 100 - probe.yes
             /\ o.profit_per_share = 100 - o.no_price
             /\ o.no_price = 0 => o.roi = 0
             /\ o.no_price > 0
                  => /\ 2 * d <= o.no_price
                     /\ 0 - 2 * d <= o.no_price
                     /\ (2 * d = o.no_price \/ 0 - 2 * d = o.no_price)
                          => o.roi % 2 = 0
             /\ probe.yes = 10
                  => o.no_price = 90 /\ o.profit_per_share = 10 /\ o.roi = 11

C8_Witness ==
    /\ pc = "evaluated"
    /\ opportunities # <<>>
    /\ opportunities[1].no_price = 32
    /\ opportunities[1].roi = 212

\* the close cutoff, 22:30, as a minute of the day
CloseCutoff == 22 * 60 + 30

\* C9: get_next_poll_interval returns None exactly at and after 22:30, and
\* once it has returned None it returns None at every later time of the day.
C9_MonotonicStop ==
    [][ pc' = "sched_polled"
        => /\ next_interval' = None <=> clock' >= CloseCutoff
           /\ (pc = "sched_polled" /\ next_interval = None)
                => next_interval' = None ]_vars

C9_Witness ==
    /\ pc = "sched_polled"
    /\ next_interval = None
    /\ Hour(clock) = 23

\* C10: before the cutoff, get_next_poll_interval returns the burst interval
\* exactly when is_critical_window is true at the same minute, and the
\* normal interval otherwise.
C10_OneBurstRule ==
    pc = "sched_polled" /\ next_interval # None
      => /\ next_interval = Some(60) <=> in_critical_window
         /\ next_interval = Some(300) <=> ~in_critical_window

\* ---- reading a title as the claims describe it ----
DigitChars == {"0", "1", "2", "3", "4", "5", "6", "7", "8", "9"}

DigitValue ==
    [c \in DigitChars |->
        CASE c = "0" -> 0 [] c = "1" -> 1 [] c = "2" -> 2 [] c = "3" -> 3
          [] c = "4" -> 4 [] c = "5" -> 5 [] c = "6" -> 6 [] c = "7" -> 7
          [] c = "8" -> 8 [] c = "9" -> 9]

\* t[i..j] is a whole number of the title: digits, with no digit around it
IsNumber(t, i, j) ==
    /\ 1 <= i /\ i <= j /\ j <= Len(t)
    /\ \A k \in i..j : t[k] \in DigitChars
    /\ (i = 1 \/ t[i - 1] \notin DigitChars)
    /\ (j = Len(t) \/ t[j + 1] \notin DigitChars)

\* the number the digits t[i..j] write
RECURSIVE NumberAt(_, _, _)
NumberAt(t, i, j) ==
    IF i = j THEN DigitValue[t[i]]
    ELSE DigitValue[t[j]] + 10 * NumberAt(t, i, j - 1)

\* the places <<i, j, k>> where the title reads "A-B deg": A = t[i..j],
\* B = t[j+2..k]
RangeForms(t) ==
    {f \in (1..Len(t)) \X (1..Len(t)) \X (1..Len(t)) :
        /\ IsNumber(t, f[1], f[2])
        /\ f[2] + 2 <= f[3]
        /\ t[f[2] + 1] = "-"
        /\ IsNumber(t, f[2] + 2, f[3])
        /\ f[3] + 1 <= Len(t)
        /\ t[f[3] + 1] = Deg}

\* the places <<i, j>> where the title reads "<sign>A deg": A = t[i+1..j]
SignForms(t, sign) ==
    {f \in (1..Len(t)) \X (1..Len(t)) :
        /\ t[f[1]] = sign
        /\ IsNumber(t, f[1] + 1, f[2])
        /\ f[2] + 1 <= Len(t)
        /\ t[f[2] + 1] = Deg}

First(F) == CHOOSE f \in F : \A g \in F : f[1] <= g[1]

\* C11: a title that reads "A-B deg" parses to (A, B) (of its first such
\* range); a title whose only form is ">A deg" parses to (A, 999); one whose
\* only form is "<A deg" parses to (0, A); a title with none of the three
\* forms parses to None.
C11_ThresholdParsing ==
    pc = "parsed"
      => LET t == probe.title
             R == RangeForms(t)
             G == SignForms(t, ">")
             L == SignForms(t, "<")
         IN  /\ R # {}
                  => probe.result =
                       Some(<<NumberAt(t, First(R)[1], First(R)[2]),
                              NumberAt(t, First(R)[2] + 2, First(R)[3])>>)
             /\ (R = {} /\ G # {} /\ L = {})
                  => probe.result =
                       Some(<<NumberAt(t, First(G)[1] + 1, First(G)[2]), 999>>)
             /\ (R = {} /\ G = {} /\ L # {})
                  => probe.result =
                       Some(<<0, NumberAt(t, First(L)[1] + 1, First(L)[2])>>)
             /\ (R = {} /\ G = {} /\ L = {}) => probe.result = None

C11_Witness ==
    /\ pc = "parsed"
    /\ probe.title = <<"x", ">", "1", "2", Deg>>
    /\ probe.result = Some(<<12, 999>>)

\* C12: when the quantity floor(max_trade_amount * 100 / no_price) of a
\* candidate that passes the budget and duplicate checks is below one,
\* nothing is submitted and traded_today, the trade counter and the order
\* history stay as they are.
C12_QuantityBelowOneNoOp ==
    [][ ( /\ Considering
          /\ ~BudgetExhausted
          /\ ~AlreadyTraded(Candidate.ticker)
          /\ Candidate.no_price > 0
          /\ (max_trade_amount * 100) \div Candidate.no_price < 1 )
        => /\ ~Submitted(gate')
           /\ traded_today' = traded_today
           /\ scan_results'.trades_executed = scan_results.trades_executed
           /\ orders' = orders ]_vars

\* C13: a submission that fails changes neither traded_today nor the trade
\* counter nor the order history, and its ticker stays out of traded_today;
\* whenever a ticker whose latest submission failed is considered again with
\* budget remaining, an order for it is submitted again.
C13_FailedOrderRetryable ==
    [][ /\ (Submitted(gate') /\ gate'.result = None)
          => /\ traded_today' = traded_today
             /\ gate'.ticker \notin traded_today'
             /\ scan_results'.trades_executed = scan_results.trades_executed
             /\ orders' = orders
             /\ spent' = spent
        /\ ( /\ Considering
             /\ pc' # "final"
             /\ Candidate.ticker \in rejected
             /\ Cardinality(traded_today) < max_total_trades[1] )
          => /\ Submitted(gate')
             /\ gate'.ticker = Candidate.ticker
             /\ gate'.no_price = Candidate.no_price ]_vars

\* the first candidate of the second scan is a ticker whose submission
\* failed in the first scan, and it is submitted again
C13_Witness ==
    /\ scan_count = 2
    /\ city_idx = 1
    /\ opp_idx = 2
    /\ Submitted(gate)
    /\ gate.retry
    /\ gate.ticker = "Y"

\* C14: a listing whose title gives no range, or with neither last_price
\* nor yes_price, produces no opportunity, whatever the observed high and
\* the bounds and price it carries; so no order is priced from a default.
C14_MissingDataSkipped ==
    (pc = "evaluated" /\ (probe.form = "none" \/ probe.field = "absent"))
      => opportunities = <<>>

\* a listing without price fields whose range is certainly exceeded
C14_Witness ==
    /\ pc = "evaluated"
    /\ probe.field = "absent"
    /\ probe.form = "range"
    /\ probe.bounds = <<58, 59>>
    /\ probe.high = 6000
    /\ opportunities = <<>>

\* C15: a city whose observation or listing fetch fails yields no
\* opportunity and no order and changes nothing the trade gate looks at; the
\* scan goes on to the next city, which is then fetched (and evaluated and
\* traded from the same traded_today and budget as if the failed city were
\* not in CITIES).
C15_FailureIsolation ==
    [][ /\ gate'.decision \in {"Fetch-WeatherFailed", "Fetch-NoMarkets"}
          => /\ pc = "city" /\ pc' = "city"
             /\ city_idx' = city_idx + 1
             /\ scan_results'.opportunities_found
                  = scan_results.opportunities_found
             /\ scan_results'.trades_executed = scan_results.trades_executed
             /\ scan_results'.max_trades_hit = scan_results.max_trades_hit
             /\ UNCHANGED <<config, traded_today, session, history>>
        /\ ( /\ gate.decision \in {"Fetch-WeatherFailed", "Fetch-NoMarkets"}
             /\ city_idx <= Len(CITIES)
             /\ pc' # "final" )
          => gate'.decision \in {"Fetch-WeatherFailed", "Fetch-NoMarkets",
                                 "Fetch-Evaluated"} ]_vars

\* the observation fetch failed for Boston, and an order for New York
\* succeeded in the same scan
C15_Witness ==
    /\ scan_results.cities_with_data = <<"New York">>
    /\ city_idx = 2
    /\ Succeeded(gate)
    /\ scan_results.trades_executed = 1

\* C16: the final statistics are printed exactly once on every way out of
\* the polling loop - cap reached, markets closed, interrupt, exception: a
\* stopped session has printed them once, a session that has not stopped has
\* not printed them, and a session that left the loop does nothing else.
C16_FinalStatsOnce ==
    /\ final_stats = (IF pc = "stopped" THEN 1 ELSE 0)
    /\ pc = "stopped"
         => stop_reason \in {"max_trades", "closed", "interrupt", "error"}
    /\ stop_reason # "running" => pc \in {"final", "stopped"}

\* a session stopped by the exception of a scan, statistics printed
C16_Witness ==
    /\ pc = "stopped"
    /\ stop_reason = "error"
    /\ final_stats = 1
    /\ scan_count = 2

\* C17: an interrupt takes effect only between scans: the step that stops
\* the session on an interrupt starts at the top of the loop or in the wait,
\* never inside scan_once nor before the results of a finished scan are
\* added to the totals.
C17_InterruptBetweenScans ==
    [][ (stop_reason = "running" /\ stop_reason' = "interrupt")
          => pc \in {"loop_top", "sleep"} ]_vars

\* C18: a failed observation fetch, a failed (or empty) listing fetch, a
\* listing with an unparsable title and a rejected order each leave the scan
\* running and the session in its loop; a finished scan is followed by the
\* wait unless the cap was hit, the markets are closed or the user
\* interrupts; and the only exception that stops a session is the division
\* by a price of zero, none of these failures.
C18_FailuresDoNotHalt ==
    [][ /\ ( \/ gate'.decision \in {"Fetch-WeatherFailed", "Fetch-NoMarkets"}
             \/ (gate'.decision = "Fetch-Evaluated" /\ gate'.unparsed > 0)
             \/ (Submitted(gate') /\ gate'.result = None) )
          => /\ pc' \in {"city", "opp"}
             /\ stop_reason' = "running"
        /\ ( /\ pc = "scan_return"
             /\ ~scan_results.max_trades_hit
             /\ clock < CloseCutoff )
          => (pc' = "sleep" \/ stop_reason' = "interrupt")
        /\ (stop_reason = "running" /\ stop_reason' = "error")
          => gate.decision = "ZeroDivisionError" ]_vars

\* the session waits after a scan in which the Boston observation failed
\* and an order was rejected
C18_Witness ==
    /\ pc = "sleep"
    /\ scan_count = 1
    /\ scan_results.cities_with_data = <<"New York">>
    /\ "Y" \in rejected
    /\ traded_today = {}

\* the next step of the scan runs one of its two budget checks
AtBudgetCheck == (pc = "city" /\ city_idx <= Len(CITIES)) \/ Considering

FetchDecisions == {"Fetch-WeatherFailed", "Fetch-NoMarkets", "Fetch-Evaluated"}

\* C19: when a budget check of a scan finds |traded_today| >=
\* max_total_trades, that step and every later step of the scan submits no
\* order and fetches no city, the scan result reports max_trades_hit, and
\* the scan returns.
C19_BudgetShortCircuit ==
    [][ /\ ( /\ AtBudgetCheck
             /\ Cardinality(traded_today) >= max_total_trades[1] )
          => /\ ~Submitted(gate')
             /\ gate'.decision \notin FetchDecisions
             /\ traded_today' = traded_today
             /\ (pc' # "final" => scan_results'.max_trades_hit)
        /\ (pc \in {"city", "opp"} /\ scan_results.max_trades_hit)
          => /\ ~Submitted(gate')
             /\ gate'.decision \notin FetchDecisions
             /\ (pc' # "final"
                   => pc' = "scan_return" /\ scan_results' = scan_results) ]_vars

\* the check before the second opportunity of Boston found the cap reached:
\* New York is the next city and will not be fetched
C19_Witness ==
    /\ gate.decision = "Skip-BudgetExhausted"
    /\ scan_results.max_trades_hit
    /\ pc = "city"
    /\ city_idx = 2
    /\ scan_results.cities_scanned = 1

\* C20: when a successful order of a scan has brought |traded_today| to
\* max_total_trades, the step after the scan leaves the loop: no poll
\* interval is computed and the session does not wait.
C20_StopRightAfterCapFilled ==
    [][ ( /\ pc = "scan_return"
          /\ scan_results.trades_executed >= 1
          /\ Cardinality(traded_today) >= max_total_trades[1] )
        => /\ pc' = "final"
           /\ next_interval' = next_interval ]_vars

\* C22: considering any opportunity the evaluator produced, with a positive
\* max_trade_amount, ends in one of the decisions Skip-Duplicate,
\* Skip-BudgetExhausted or Execute, and the scan goes on; no error is raised
\* out of the scan.
C22_GateTotal ==
    [][ (Considering /\ max_trade_amount > 0 /\ stop_reason' # "interrupt")
          => /\ gate'.decision \in {"Skip-Duplicate", "Skip-BudgetExhausted",
                                    "Execute"}
             /\ pc' \in {"opp", "city"} ]_vars

\* C24: in a session with auto_execute off no order is ever submitted,
\* successfully or not, the trade gate is never entered, and traded_today
\* and the trade counters of the scan and of the session stay empty and
\* zero; opportunities are still found and added to the totals (witness).
C24_NoTradesWithoutAutoExecute ==
    ~auto_execute
      => /\ ~Submitted(gate)
         /\ pc # "opp"
         /\ traded_today = {}
         /\ rejected = {}
         /\ SuccessfulOrders = 0
         /\ spent = 0
         /\ scan_results.trades_executed = 0
         /\ total_trades = 0

\* auto_execute off: two scans have found and counted opportunities
C24_Witness ==
    /\ ~auto_execute
    /\ pc = "sleep"
    /\ scan_count = 2
    /\ scan_results.opportunities_found = 2
    /\ total_opportunities = 4
    /\ total_trades = 0

\* C25: a title that holds more than one of the three forms parses to the
\* range if it holds a range, else to the greater-than form, wherever in the
\* title the forms stand: the less-than form only counts when it is alone.
C25_ParserPriority ==
    pc = "parsed"
      => LET t == probe.title
             R == RangeForms(t)
             G == SignForms(t, ">")
             L == SignForms(t, "<")
             forms == {f \in {"range", "gt", "lt"} :
                          \/ (f = "range" /\ R # {})
                          \/ (f = "gt" /\ G # {})
                          \/ (f = "lt" /\ L # {})}
         IN  Cardinality(forms) > 1
               => IF "range" \in forms
                  THEN /\ probe.result # None
                       /\ \E f \in R :
                            probe.result =
                              Some(<<NumberAt(t, f[1], f[2]),
                                     NumberAt(t, f[2] + 2, f[3])>>)
                  ELSE /\ probe.result # None
                       /\ probe.result[1][2] = 999
                       /\ \E f \in G :
                            probe.result[1][1] = NumberAt(t, f[1] + 1, f[2])

\* a less-than form standing before a greater-than form
C25_Witness ==
    /\ pc = "parsed"
    /\ probe.title = <<"b", "e", " ", "<", "1", Deg, " ", "o", "r", " ",
                       ">", "2", Deg, "?">>
    /\ probe.result = Some(<<2, 999>>)

\* C26: between scans, and after a completed scan has been added to the
\* totals, total_trades is the size of traded_today; during a scan and at
\* its return, trades_executed is the number of tickers the scan has added
\* to traded_today so far (the size of the set less its size, total_trades,
\* when the scan began).
C26_CounterConsistency ==
    /\ pc \in {"loop_top", "sleep"}
         => total_trades = Cardinality(traded_today)
    /\ (pc \in {"final", "stopped"} /\ stop_reason \in {"max_trades", "closed"})
         => total_trades = Cardinality(traded_today)
    /\ pc \in {"city", "opp", "scan_return", "raised"}
         => scan_results.trades_executed
              = Cardinality(traded_today) - total_trades

\* after the second scan, which added one ticker to the one of the first
C26_Witness ==
    /\ pc = "sleep"
    /\ scan_count = 2
    /\ scan_results.trades_executed = 1
    /\ total_trades = 2
    /\ Cardinality(traded_today) = 2

\* C27: the cutoff is only looked at after a scan. At or after 22:30 the
\* first pass of the loop still starts a scan when budget remains; a scan
\* that returns at or after 22:30 is followed by the stop, never by a wait;
\* and in a session that has never computed a wait (it started at or after
\* the cutoff) no second scan starts.
C27_CutoffOnlyAfterScan ==
    [][ /\ ( /\ pc = "loop_top" /\ scan_count = 0
             /\ clock >= CloseCutoff
             /\ Cardinality(traded_today) < max_total_trades[1]
             /\ stop_reason' # "interrupt" )
          => (pc' = "city" /\ scan_count' = 1)
        /\ (pc = "scan_return" /\ clock >= CloseCutoff)
          => (pc' = "final" /\ clock' = clock)
        /\ ( /\ scan_count' # scan_count
             /\ clock >= CloseCutoff
             /\ next_interval = None )
          => scan_count = 0 ]_vars

\* a session started at 22:31 has stopped as closed after one scan in which
\* an order succeeded
C27_Witness ==
    /\ pc = "stopped"
    /\ stop_reason = "closed"
    /\ clock = 22 * 60 + 31
    /\ scan_count = 1
    /\ total_trades = 1
    /\ scan_results.cities_scanned = 2
    /\ next_interval = None

\* a is b with some of its elements left out, the others in b's order
IsSubsequence(a, b) ==
    \E f \in [1..Len(a) -> 1..Len(b)] :
        /\ \A i \in 1..Len(a) : b[f[i]] = a[i]
        /\ \A i, j \in 1..Len(a) : i < j => f[i] < f[j]

\* C23: within a scan the cities are taken in the order of CITIES; the
\* opportunities of a city stand in the order of its listings; the gate
\* considers them one by one in that order; and the candidate considered is
\* submitted exactly when it is not yet traded and fewer than
\* max_total_trades tickers are traded (its price not being zero) - so the
\* orders go to the first non-duplicate opportunities until the budget is
\* used.
C23_SubmissionOrder ==
    [][ /\ (pc \in {"city", "opp"} /\ pc' \in {"city", "opp", "scan_return"})
          => /\ city_idx' \in {city_idx, city_idx + 1}
             /\ IsSubsequence(scan_results'.cities_with_data, CITIES)
        /\ (gate'.decision \in FetchDecisions /\ gate'.listed > 0)
          => /\ scan_results'.cities_with_data
                  = Append(scan_results.cities_with_data, CITIES[city_idx])
             /\ (pc' = "opp"
                   => /\ opp_idx' = 1
                      /\ IsSubsequence(
                            [i \in 1..Len(opportunities') |->
                                opportunities'[i].ticker],
                            gate'.tickers))
        /\ (Considering /\ stop_reason' # "interrupt")
          => /\ gate'.ticker = Candidate.ticker
             /\ opportunities' = opportunities
             /\ (pc' = "opp" => opp_idx' = opp_idx + 1)
             /\ Submitted(gate')
                  <=> /\ Candidate.ticker \notin traded_today
                      /\ Cardinality(traded_today) < max_total_trades[1]
                      /\ Candidate.no_price > 0 ]_vars

\* budget 1, Boston lists Y then X: the order for Y fails, the order for X
\* succeeds and uses the budget
C23_Witness ==
    /\ max_total_trades = Some(1)
    /\ city_idx = 1
    /\ Len(opportunities) = 2
    /\ opportunities[1].ticker = "Y"
    /\ opp_idx = 3
    /\ Succeeded(gate)
    /\ gate.ticker = "X"
    /\ "Y" \in rejected
    /\ traded_today = {"X"}

\* C21: every session stops: with the scans, waits and handlers running to
\* their end, a session reaches its stopped state, and it does so from the
\* first scheduler check made at or after 22:30 - a scan that returns at or
\* after the cutoff is never followed by a wait.
C21_Termination ==
    /\ <>(pc = "stopped")
    /\ [][ (pc = "scan_return" /\ clock >= CloseCutoff)
             => pc' = "final" ]_vars

\* a session started at 22:28 has waited once, scanned again at 22:33 and
\* stopped as closed
C21_Witness ==
    /\ pc = "stopped"
    /\ stop_reason = "closed"
    /\ scan_count = 2
    /\ clock = 22 * 60 + 33

====
